---- MODULE Spec2Model ----
(***************************************************************************)
(* Model of package buffpool (buf.go): a fixed-capacity pool of reusable   *)
(* buffers backed by a buffered Go channel, with an atomic inUse flag per  *)
(* buffer, a non-blocking Acquire, a blocking stream view (BufferChan),    *)
(* and the pool lifecycle Init / Reset / Release.                          *)
(*                                                                         *)
(* Every goroutine that calls the pool is a thread with a program counter; *)
(* one step is one shared-memory operation of the code (an atomic load or  *)
(* compare-and-swap, a channel send / receive / close, a mutex lock).      *)
(* A mutex Lock is merged with the load that follows it and an Unlock with *)
(* the writes that precede it: both only reorder with steps of other       *)
(* threads that cannot observe the difference.  A receive is merged with   *)
(* the compare-and-swap on the received buffer's flag for the same reason. *)
(* A Go panic stops the whole program: it sets panic and disables every    *)
(* action.                                                                 *)
(***************************************************************************)
EXTENDS Integers, Sequences, FiniteSets, TLC

\* ---------------------------------------------------------------- bounds
NumAdmins == 1    \* goroutines calling Init, Reset, Pool.Release, BufferChan
NumConsumers == 2 \* goroutines calling Acquire, Buffer.Release, reading a stream
MaxCount == 2     \* largest bufCount passed to Init
MaxSize == 2      \* largest bufSize passed to Init
MaxBufs == 4      \* Buffer objects allocated over a run
MaxChans == 2     \* channels made over a run (successful Init calls)
MaxStreams == 1   \* BufferChan goroutines started over a run
MaxVal == 1       \* largest element written into a buffer's data

Admins == 1..NumAdmins
Consumers == (NumAdmins + 1)..(NumAdmins + NumConsumers)
Threads == Admins \cup Consumers
\* the consumer that calls SetLength in SpecSeq
Mutator == NumAdmins + 1
\* the consumer that reads the stream in SpecStream
Reader == NumAdmins + NumConsumers
Bufs == 1..MaxBufs
Chans == 1..MaxChans
Streams == 1..MaxStreams
Counts == (-1)..MaxCount
Lens == (-1)..(MaxSize + 1)
\* the elements of type T; 0 is T's zero value
Vals == 0..MaxVal
SeqLens == {-1, 1, MaxSize + 1}

\* the nil channel (the zero value of Pool.buffers) and the nil *Buffer
NilChan == 0
NilBuf == 0
\* sync.Mutex unlocked
Unlocked == 0
\* harness value of snap for a thread with no snapshot
NoSnap == <<>>

VARIABLES
    buffers,        \* Pool.buffers: NilChan or the channel made by the last Init
    bufSize,        \* Pool.bufSize
    bufCount,       \* Pool.bufCount
    isInitialized,  \* Pool.isInitialized
    isReleased,     \* Pool.isReleased (int32, 0 or 1)
    mu,             \* Pool.mu: Unlocked or the thread holding it
    chans,          \* the channels made so far: queue, capacity, closed
    nchan,          \* number of channels made
    inUse,          \* Buffer.inUse of every allocated buffer
    length,         \* Buffer.length
    bcap,           \* cap(Buffer.data)
    data,           \* the elements of Buffer.data
    nbuf,           \* number of Buffer objects allocated
    pc,             \* where each thread is in the call it is running
    held,           \* the *Buffer a thread holds, or is handing back in put
    idx,            \* loop counter i of Init / Reset in each thread (0 outside the loops)
    last,           \* what the call that returned last returned
    spc,            \* where each stream goroutine is
    sch,            \* the channel a stream goroutine ranges over
    sbuf,           \* the buffer a stream goroutine is sending on out
    panic,          \* "none", or the panic that stopped the program
    done,           \* harness: consumers whose one cycle is over
    old,            \* harness: the buffer a consumer released last (it keeps the pointer)
    args,           \* harness: <<bufCount, bufSize>> passed to the last Init call
    snap,           \* harness: <<Available() before the thread's Acquire>>, then with the
                    \* length it released the buffer at, then with 0 once put returned
    gen,            \* harness: nbuf when the last Reset began (-1: no Reset yet)
    orphan,         \* harness: a buffer older than the last Reset was put back since
    obs             \* harness: the Buffer method called last with its buffer and its
                    \* argument or result, <<>> after any other step

poolvars == <<buffers, bufSize, bufCount, isInitialized, isReleased, mu>>
chanvars == <<chans, nchan>>
bufvars == <<inUse, length, bcap, data, nbuf>>
thrvars == <<pc, held, idx>>
strvars == <<spc, sch, sbuf>>
hvars == <<done, old, args, snap, gen, orphan, obs>>
pvars == <<poolvars, chanvars, bufvars, thrvars, strvars, last, panic>>
vars == <<pvars, hvars>>

\* ------------------------------------------------------------ primitives

\* make(chan *Buffer[T], n)
MakeChan(n) == [q |-> <<>>, cap |-> n, closed |-> FALSE]

\* len(ch); the length of a nil channel is 0
ChanLen(c) == IF c = NilChan THEN 0 ELSE Len(chans[c].q)

\* a send on ch can proceed at once (buffer space left)
CanSendMutNoCap(c) == c # NilChan /\ ~chans[c].closed
CanSend(c) == c # NilChan /\ ~chans[c].closed /\ Len(chans[c].q) < chans[c].cap

\* a receive on ch can take a queued buffer
CanRecv(c) == c # NilChan /\ Len(chans[c].q) > 0

\* the channels after buffer b is sent on channel c (case p.buffers <- b)
SendMutDrop(c, b) == chans
Send(c, b) == [chans EXCEPT ![c].q = Append(@, b)]

\* the channels after a receive from channel c (<-p.buffers)
RecvMutPeek(c) == chans
Recv(c) == [chans EXCEPT ![c].q = Tail(@)]

\* atomic.CompareAndSwapInt32(&x, o, n) on a word holding cur: the new word
CASMutNoSwap(cur, o, n) == cur
CAS(cur, o, n) == IF cur = o THEN n ELSE cur

\* Buffer.SetLength: the length stored for a request of n on capacity c
SetLengthMutNoClamp(n, c) == n
SetLength(n, c) == IF n > c THEN c ELSE n

\* the error Pool.Init returns before it changes anything, or "none"
InitRefusalMutLt(count, size) ==
    IF isReleased = 1 THEN "Init:released"
    ELSE IF count < 0 \/ size < 0 THEN "Init:invalid"
    ELSE "none"
InitRefusalMutArgsFirst(count, size) ==
    IF count <= 0 \/ size <= 0 THEN "Init:invalid"
    ELSE IF isReleased = 1 THEN "Init:released"
    ELSE "none"
InitRefusal(count, size) ==
    IF isReleased = 1 THEN "Init:released"
    ELSE IF count <= 0 \/ size <= 0 THEN "Init:invalid"
    ELSE "none"

\* Pool.Available
Available == IF isReleased = 1 THEN 0 ELSE ChanLen(buffers)

At(t, l) == panic = "none" /\ pc[t] = l

Return(t, r) ==
    /\ pc' = [pc EXCEPT ![t] = "idle"]
    /\ last' = r

\* p.buffers <- &Buffer[T]{data: make([]T, size), length: 0, pool: p, inUse: 0}
\* (the variant fills slot i of the list with Buffer object i again)
SendNewBufferMutReuse(c, size) ==
    LET b == Len(chans[c].q) + 1 IN
    /\ nbuf' = IF b > nbuf THEN b ELSE nbuf
    /\ inUse' = [inUse EXCEPT ![b] = 0]
    /\ length' = [length EXCEPT ![b] = 0]
    /\ bcap' = [bcap EXCEPT ![b] = size]
    /\ data' = [data EXCEPT ![b] = [i \in 1..size |-> 0]]
    /\ chans' = [chans EXCEPT ![c].q = Append(@, b)]
SendNewBuffer(c, size) ==
    /\ nbuf' = nbuf + 1
    /\ inUse' = [inUse EXCEPT ![nbuf + 1] = 0]
    /\ length' = [length EXCEPT ![nbuf + 1] = 0]
    /\ bcap' = [bcap EXCEPT ![nbuf + 1] = size]
    /\ data' = [data EXCEPT ![nbuf + 1] = [i \in 1..size |-> 0]]
    /\ chans' = [chans EXCEPT ![c].q = Append(@, nbuf + 1)]

\* ----------------------------------------------------------------- Init
TypeOK ==
    /\ buffers \in {NilChan} \cup Chans
    /\ bufSize \in 0..(MaxSize) /\ bufCount \in 0..MaxCount
    /\ isInitialized \in BOOLEAN /\ isReleased \in {0, 1}
    /\ mu \in {Unlocked} \cup Threads
    /\ nchan \in 0..MaxChans /\ nbuf \in 0..MaxBufs
    /\ \A c \in Chans : Len(chans[c].q) <= chans[c].cap
    /\ \A b \in Bufs : inUse[b] \in {0, 1} /\ length[b] \in Lens

Init ==
    /\ buffers = NilChan
    /\ bufSize = 0
    /\ bufCount = 0
    /\ isInitialized = FALSE
    /\ isReleased = 0
    /\ mu = Unlocked
    /\ chans = [c \in Chans |-> MakeChan(0)]
    /\ nchan = 0
    /\ inUse = [b \in Bufs |-> 0]
    /\ length = [b \in Bufs |-> 0]
    /\ bcap = [b \in Bufs |-> 0]
    /\ data = [b \in Bufs |-> <<>>]
    /\ nbuf = 0
    /\ pc = [t \in Threads |-> "idle"]
    /\ held = [t \in Threads |-> NilBuf]
    /\ idx = [t \in Threads |-> 0]
    /\ last = "none"
    /\ spc = [s \in Streams |-> "none"]
    /\ sch = [s \in Streams |-> NilChan]
    /\ sbuf = [s \in Streams |-> NilBuf]
    /\ panic = "none"
    /\ done = {}
    /\ old = [t \in Threads |-> NilBuf]
    /\ args = <<0, 0>>
    /\ snap = [t \in Threads |-> NoSnap]
    /\ gen = -1
    /\ orphan = FALSE
    /\ obs = <<>>

\* ----------------------------------------------------------------- Init
\* Pool.Init up to the make of the channel: Lock, the released check, the
\* argument check, then bufCount, bufSize and buffers are set
InitBegin(t, count, size) ==
    /\ At(t, "idle") /\ mu = Unlocked
    /\ IF InitRefusal(count, size) # "none" THEN
           /\ pc' = pc /\ last' = InitRefusal(count, size)
           /\ UNCHANGED <<poolvars, chanvars, idx>>
       ELSE
           /\ nchan < MaxChans /\ nbuf + count <= MaxBufs
           /\ bufCount' = count
           /\ bufSize' = size
           /\ nchan' = nchan + 1
           /\ chans' = [chans EXCEPT ![nchan + 1] = MakeChan(count)]
           /\ buffers' = nchan + 1
           /\ mu' = t
           /\ pc' = [pc EXCEPT ![t] = "init_fill"]
           /\ last' = last
           /\ idx' = [idx EXCEPT ![t] = 0]
           /\ UNCHANGED <<isInitialized, isReleased>>
    /\ UNCHANGED <<bufvars, held, strvars, panic>>

\* one iteration of Init's fill loop: a blocking send of a new Buffer
InitFill(t) ==
    /\ At(t, "init_fill") /\ idx[t] < bufCount
    /\ CanSend(buffers)
    /\ SendNewBuffer(buffers, bufSize)
    /\ idx' = [idx EXCEPT ![t] = @ + 1]
    /\ UNCHANGED <<poolvars, nchan, pc, held, last, strvars, panic>>

\* the end of Init: isInitialized = true, the deferred Unlock, return nil
InitEndMutEarly(t) ==
    /\ At(t, "init_fill") /\ idx[t] >= bufCount - 1
    /\ isInitialized' = TRUE
    /\ mu' = Unlocked
    /\ Return(t, "Init:nil")
    /\ idx' = [idx EXCEPT ![t] = 0]
    /\ UNCHANGED <<buffers, bufSize, bufCount, isReleased, chanvars, bufvars,
                   held, strvars, panic>>
InitEnd(t) ==
    /\ At(t, "init_fill") /\ idx[t] >= bufCount
    /\ isInitialized' = TRUE
    /\ mu' = Unlocked
    /\ Return(t, "Init:nil")
    /\ idx' = [idx EXCEPT ![t] = 0]
    /\ UNCHANGED <<buffers, bufSize, bufCount, isReleased, chanvars, bufvars,
                   held, strvars, panic>>

\* ---------------------------------------------------------------- Reset
\* Pool.Reset up to its drain loop: Lock, the released check, the
\* initialized check
ResetBeginMutNoInitCheck(t) ==
    /\ At(t, "idle") /\ mu = Unlocked
    /\ IF isReleased = 1 THEN
           /\ pc' = pc /\ last' = "Reset:void"
           /\ mu' = mu
       ELSE
           /\ nbuf + bufCount <= MaxBufs
           /\ mu' = t
           /\ pc' = [pc EXCEPT ![t] = "reset_drain"]
           /\ last' = last
    /\ UNCHANGED <<buffers, bufSize, bufCount, isInitialized, isReleased,
                   chanvars, bufvars, held, idx, strvars, panic>>
ResetBegin(t) ==
    /\ At(t, "idle") /\ mu = Unlocked
    /\ IF isReleased = 1 \/ ~isInitialized THEN
           /\ pc' = pc /\ last' = "Reset:void"
           /\ mu' = mu
       ELSE
           /\ nbuf + bufCount <= MaxBufs
           /\ mu' = t
           /\ pc' = [pc EXCEPT ![t] = "reset_drain"]
           /\ last' = last
    /\ UNCHANGED <<buffers, bufSize, bufCount, isInitialized, isReleased,
                   chanvars, bufvars, held, idx, strvars, panic>>

\* the condition of Reset's drain loop: len(p.buffers) > 0
ResetDrain(t) ==
    /\ At(t, "reset_drain")
    /\ IF ChanLen(buffers) > 0
       THEN pc' = [pc EXCEPT ![t] = "reset_recv"] /\ idx' = idx
       ELSE pc' = [pc EXCEPT ![t] = "reset_fill"] /\ idx' = [idx EXCEPT ![t] = 0]
    /\ UNCHANGED <<poolvars, chanvars, bufvars, held, last, strvars, panic>>

\* the body of Reset's drain loop: a blocking receive
ResetRecv(t) ==
    /\ At(t, "reset_recv")
    /\ IF CanRecv(buffers) THEN chans' = Recv(buffers)
       ELSE buffers # NilChan /\ chans[buffers].closed /\ chans' = chans
    /\ pc' = [pc EXCEPT ![t] = "reset_drain"]
    /\ UNCHANGED <<poolvars, nchan, bufvars, held, idx, last, strvars, panic>>

\* one iteration of Reset's refill loop: a blocking send of a new Buffer
ResetFill(t) ==
    /\ At(t, "reset_fill") /\ idx[t] < bufCount
    /\ CanSend(buffers)
    /\ SendNewBuffer(buffers, bufSize)
    /\ idx' = [idx EXCEPT ![t] = @ + 1]
    /\ UNCHANGED <<poolvars, nchan, pc, held, last, strvars, panic>>

\* the end of Reset: the deferred Unlock
ResetEndMutEarly(t) ==
    /\ At(t, "reset_fill") /\ idx[t] >= bufCount - 1
    /\ mu' = Unlocked
    /\ Return(t, "Reset:void")
    /\ idx' = [idx EXCEPT ![t] = 0]
    /\ UNCHANGED <<buffers, bufSize, bufCount, isInitialized, isReleased,
                   chanvars, bufvars, held, strvars, panic>>
ResetEnd(t) ==
    /\ At(t, "reset_fill") /\ idx[t] >= bufCount
    /\ mu' = Unlocked
    /\ Return(t, "Reset:void")
    /\ idx' = [idx EXCEPT ![t] = 0]
    /\ UNCHANGED <<buffers, bufSize, bufCount, isInitialized, isReleased,
                   chanvars, bufvars, held, strvars, panic>>

\* --------------------------------------------------------- Pool.Release
\* the compare-and-swap of isReleased from 0 to 1
PoolReleaseBegin(t) ==
    /\ At(t, "idle")
    /\ isReleased' = CAS(isReleased, 0, 1)
    /\ IF isReleased = 0
       THEN pc' = [pc EXCEPT ![t] = "prel_lock"] /\ last' = last
       ELSE pc' = pc /\ last' = "PoolRelease:void"
    /\ UNCHANGED <<buffers, bufSize, bufCount, isInitialized, mu, chanvars,
                   bufvars, held, idx, strvars, panic>>

\* p.mu.Lock() in Pool.Release
PoolReleaseLock(t) ==
    /\ At(t, "prel_lock") /\ mu = Unlocked
    /\ mu' = t
    /\ pc' = [pc EXCEPT ![t] = "prel_drain"]
    /\ UNCHANGED <<buffers, bufSize, bufCount, isInitialized, isReleased,
                   chanvars, bufvars, held, idx, last, strvars, panic>>

\* the condition of Pool.Release's drain loop
PoolReleaseDrain(t) ==
    /\ At(t, "prel_drain")
    /\ pc' = [pc EXCEPT ![t] =
                 IF ChanLen(buffers) > 0 THEN "prel_recv" ELSE "prel_close"]
    /\ UNCHANGED <<poolvars, chanvars, bufvars, held, idx, last, strvars, panic>>

\* the body of Pool.Release's drain loop: a blocking receive
PoolReleaseRecv(t) ==
    /\ At(t, "prel_recv")
    /\ IF CanRecv(buffers) THEN chans' = Recv(buffers)
       ELSE buffers # NilChan /\ chans[buffers].closed /\ chans' = chans
    /\ pc' = [pc EXCEPT ![t] = "prel_drain"]
    /\ UNCHANGED <<poolvars, nchan, bufvars, held, idx, last, strvars, panic>>

\* close(p.buffers), the field resets and the deferred Unlock; closing a nil
\* channel panics
PoolReleaseClose(t) ==
    /\ At(t, "prel_close")
    /\ mu' = Unlocked
    /\ IF buffers = NilChan THEN
           /\ panic' = "close of nil channel"
           /\ UNCHANGED <<buffers, bufSize, bufCount, isInitialized, chans, pc, last>>
       ELSE IF chans[buffers].closed THEN
           /\ panic' = "close of closed channel"
           /\ UNCHANGED <<buffers, bufSize, bufCount, isInitialized, chans, pc, last>>
       ELSE
           /\ chans' = [chans EXCEPT ![buffers].closed = TRUE]
           /\ bufCount' = 0
           /\ bufSize' = 0
           /\ isInitialized' = FALSE
           /\ Return(t, "PoolRelease:void")
           /\ UNCHANGED <<buffers, panic>>
    /\ UNCHANGED <<isReleased, nchan, bufvars, held, idx, strvars>>

\* -------------------------------------------------------------- Acquire
\* the released check that opens Pool.Acquire, in a call from the consumer
\* or in the recursive call after a failed compare-and-swap
AcquireCheckMutNoCheck(t) ==
    /\ panic = "none"
    /\ \/ pc[t] = "idle" /\ held[t] = NilBuf
       \/ pc[t] = "acq_check"
    /\ pc' = [pc EXCEPT ![t] = "acq_select"] /\ last' = last
    /\ UNCHANGED <<poolvars, chanvars, bufvars, held, idx, strvars, panic>>
AcquireCheck(t) ==
    /\ panic = "none"
    /\ \/ pc[t] = "idle" /\ held[t] = NilBuf
       \/ pc[t] = "acq_check"
    /\ IF isReleased = 1
       THEN Return(t, "Acquire:notfound")
       ELSE pc' = [pc EXCEPT ![t] = "acq_select"] /\ last' = last
    /\ UNCHANGED <<poolvars, chanvars, bufvars, held, idx, strvars, panic>>

\* the select of Pool.Acquire: a receive from p.buffers and the
\* compare-and-swap of the received buffer's inUse from 0 to 1, or default.
\* A receive from a closed, empty channel yields the nil *Buffer at once, and
\* &buf.inUse then dereferences nil.
AcquireSelect(t) ==
    /\ At(t, "acq_select")
    /\ IF CanRecv(buffers) THEN
           LET b == Head(chans[buffers].q) IN
           /\ chans' = Recv(buffers)
           /\ inUse' = [inUse EXCEPT ![b] = CAS(@, 0, 1)]
           /\ held' = [held EXCEPT ![t] = b]
           /\ IF inUse[b] = 0
              THEN Return(t, "Acquire:found")
              ELSE pc' = [pc EXCEPT ![t] = "aput_check"] /\ last' = last
           /\ panic' = panic
       ELSE IF buffers # NilChan /\ chans[buffers].closed THEN
           /\ panic' = "nil pointer dereference"
           /\ UNCHANGED <<chans, inUse, held, pc, last>>
       ELSE
           /\ Return(t, "Acquire:notfound")
           /\ UNCHANGED <<chans, inUse, held, panic>>
    /\ UNCHANGED <<poolvars, nchan, length, bcap, data, nbuf, idx, strvars>>

\* ------------------------------------------------------------------ put
\* where a thread goes when put returns: back to the consumer from
\* Buffer.Release, into the recursive Acquire from Pool.Acquire
PutReturn(t) ==
    /\ held' = [held EXCEPT ![t] = NilBuf]
    /\ IF pc[t] \in {"put_check", "put_send"}
       THEN Return(t, "Release:void")
       ELSE pc' = [pc EXCEPT ![t] = "acq_check"] /\ last' = last

\* the released check that opens Pool.put
PutCheckMutNoCheck(t) ==
    /\ panic = "none" /\ pc[t] \in {"put_check", "aput_check"}
    /\ pc' = [pc EXCEPT ![t] =
                 IF pc[t] = "put_check" THEN "put_send" ELSE "aput_send"]
    /\ UNCHANGED <<held, last>>
    /\ UNCHANGED <<poolvars, chanvars, bufvars, idx, strvars, panic>>
PutCheck(t) ==
    /\ panic = "none" /\ pc[t] \in {"put_check", "aput_check"}
    /\ IF isReleased = 1
       THEN PutReturn(t)
       ELSE /\ pc' = [pc EXCEPT ![t] =
                        IF pc[t] = "put_check" THEN "put_send" ELSE "aput_send"]
            /\ UNCHANGED <<held, last>>
    /\ UNCHANGED <<poolvars, chanvars, bufvars, idx, strvars, panic>>

\* the rest of Pool.put: the load of b.inUse and the select that sends b on
\* p.buffers or panics.  A send on a closed channel panics; a nil or a full
\* channel takes the default case.
PutSendMutForce(t) ==
    /\ panic = "none" /\ pc[t] \in {"put_send", "aput_send"}
    /\ IF inUse[held[t]] # 0 THEN
           /\ panic' = "Attempting to return a buffer that is still in use"
           /\ UNCHANGED <<chans, held, pc, last>>
       ELSE IF CanSend(buffers) THEN
           /\ chans' = Send(buffers, held[t])
           /\ PutReturn(t)
           /\ panic' = panic
       ELSE IF buffers # NilChan /\ chans[buffers].closed THEN
           /\ panic' = "send on closed channel"
           /\ UNCHANGED <<chans, held, pc, last>>
       ELSE
           /\ panic' = "Attempting to return a buffer to a full pool"
           /\ chans' = IF buffers = NilChan THEN chans
                       ELSE [chans EXCEPT ![buffers].q = <<held[t]>> \o Tail(@)]
           /\ UNCHANGED <<held, pc, last>>
    /\ UNCHANGED <<poolvars, nchan, bufvars, idx, strvars>>
PutSend(t) ==
    /\ panic = "none" /\ pc[t] \in {"put_send", "aput_send"}
    /\ IF inUse[held[t]] # 0 THEN
           /\ panic' = "Attempting to return a buffer that is still in use"
           /\ UNCHANGED <<chans, held, pc, last>>
       ELSE IF CanSend(buffers) THEN
           /\ chans' = Send(buffers, held[t])
           /\ PutReturn(t)
           /\ panic' = panic
       ELSE IF buffers # NilChan /\ chans[buffers].closed THEN
           /\ panic' = "send on closed channel"
           /\ UNCHANGED <<chans, held, pc, last>>
       ELSE
           /\ panic' = "Attempting to return a buffer to a full pool"
           /\ UNCHANGED <<chans, held, pc, last>>
    /\ UNCHANGED <<poolvars, nchan, bufvars, idx, strvars>>

\* --------------------------------------------------------------- Buffer
\* Buffer.Release of buffer b by thread t up to the call of put: the
\* compare-and-swap of inUse from 1 to 0 and SetLength(0), or the panic
ReleaseOfMutKeepLength(t, b) ==
    /\ inUse' = [inUse EXCEPT ![b] = CAS(@, 1, 0)]
    /\ IF inUse[b] = 1 THEN
           /\ held' = [held EXCEPT ![t] = b]
           /\ pc' = [pc EXCEPT ![t] = "put_check"]
           /\ UNCHANGED <<length, last, panic>>
       ELSE
           /\ panic' = "Buffer already released or was never acquired"
           /\ UNCHANGED <<length, held, pc, last>>
    /\ UNCHANGED <<poolvars, chanvars, bcap, data, nbuf, idx, strvars>>
ReleaseOfMutNoSwap(t, b) ==
    /\ inUse' = inUse
    /\ IF inUse[b] = 1 THEN
           /\ length' = [length EXCEPT ![b] = SetLength(0, bcap[b])]
           /\ held' = [held EXCEPT ![t] = b]
           /\ pc' = [pc EXCEPT ![t] = "put_check"]
           /\ last' = last
           /\ panic' = panic
       ELSE
           /\ panic' = "Buffer already released or was never acquired"
           /\ UNCHANGED <<length, held, pc, last>>
    /\ UNCHANGED <<poolvars, chanvars, bcap, data, nbuf, idx, strvars>>
ReleaseOf(t, b) ==
    /\ inUse' = [inUse EXCEPT ![b] = CAS(@, 1, 0)]
    /\ IF inUse[b] = 1 THEN
           /\ length' = [length EXCEPT ![b] = SetLength(0, bcap[b])]
           /\ held' = [held EXCEPT ![t] = b]
           /\ pc' = [pc EXCEPT ![t] = "put_check"]
           /\ last' = last
           /\ panic' = panic
       ELSE
           /\ panic' = "Buffer already released or was never acquired"
           /\ UNCHANGED <<length, held, pc, last>>
    /\ UNCHANGED <<poolvars, chanvars, bcap, data, nbuf, idx, strvars>>

\* Buffer.Release by the consumer that holds the buffer
BufferRelease(t) ==
    /\ At(t, "idle") /\ held[t] # NilBuf
    /\ ReleaseOf(t, held[t])

\* Buffer.Release called again by a consumer on the buffer it released last
StaleRelease(t) ==
    /\ At(t, "idle") /\ held[t] = NilBuf /\ old[t] # NilBuf
    /\ ReleaseOf(t, old[t])

\* Buffer.SetLength(n) by the consumer that holds the buffer
BufferSetLength(t, n) ==
    /\ At(t, "idle") /\ held[t] # NilBuf
    /\ length' = [length EXCEPT ![held[t]] = SetLength(n, bcap[held[t]])]
    /\ UNCHANGED <<poolvars, chanvars, inUse, bcap, data, nbuf, thrvars, strvars, last, panic>>

\* Buffer.GetLength
GetLength(b) == length[b]

\* Buffer.GetFullData: the slice b.data itself
GetFullData(b) == data[b]

\* Buffer.GetValidData: b.data[:b.length], for a length the slice
\* expression accepts
GetValidData(b) == SubSeq(data[b], 1, length[b])

\* a call of GetValidData by the holder: the slice expression panics when
\* the length is negative or beyond cap(b.data)
BufferGetValidData(t) ==
    /\ At(t, "idle") /\ held[t] # NilBuf
    /\ panic' = IF length[held[t]] < 0 \/ length[held[t]] > bcap[held[t]]
                THEN "slice bounds out of range" ELSE panic
    /\ UNCHANGED <<poolvars, chanvars, bufvars, thrvars, strvars, last>>

\* the holder writes v at index i of the slice GetFullData returned
BufferWrite(t, i, v) ==
    /\ At(t, "idle") /\ held[t] # NilBuf
    /\ i \in 1..bcap[held[t]]
    /\ data' = [data EXCEPT ![held[t]][i] = v]
    /\ UNCHANGED <<poolvars, chanvars, inUse, length, bcap, nbuf, thrvars,
                   strvars, last, panic>>

\* ----------------------------------------------------------- BufferChan
\* Pool.BufferChan: the released check, then make(out) and the go statement
BufferChan(t, s) ==
    /\ At(t, "idle")
    /\ pc' = pc
    /\ IF isReleased = 1 THEN
           /\ last' = "BufferChan:nil"
           /\ spc' = spc
       ELSE
           /\ spc[s] = "none" /\ \A r \in Streams : r < s => spc[r] # "none"
           /\ last' = "BufferChan:chan"
           /\ spc' = [spc EXCEPT ![s] = "start"]
    /\ UNCHANGED <<poolvars, chanvars, bufvars, held, idx, sch, sbuf, panic>>

\* the stream goroutine evaluates p.buffers, the operand of its range
StreamStart(s) ==
    /\ panic = "none" /\ spc[s] = "start"
    /\ sch' = [sch EXCEPT ![s] = buffers]
    /\ spc' = [spc EXCEPT ![s] = "recv"]
    /\ UNCHANGED <<poolvars, chanvars, bufvars, thrvars, sbuf, last, panic>>

\* one iteration of the range: a blocking receive and the compare-and-swap
\* of inUse from 0 to 1 (or the panic); on a closed, empty channel the loop
\* ends and out is closed.  A nil channel blocks for ever.
StreamRecvMutNoBlock(s) ==
    /\ panic = "none" /\ spc[s] = "recv"
    /\ IF CanRecv(sch[s]) THEN
           LET b == Head(chans[sch[s]].q) IN
           /\ chans' = Recv(sch[s])
           /\ inUse' = [inUse EXCEPT ![b] = CAS(@, 0, 1)]
           /\ IF inUse[b] = 0
              THEN /\ sbuf' = [sbuf EXCEPT ![s] = b]
                   /\ spc' = [spc EXCEPT ![s] = "send"]
                   /\ panic' = panic
              ELSE /\ panic' = "Buffer already in use"
                   /\ UNCHANGED <<sbuf, spc>>
       ELSE
           /\ spc' = [spc EXCEPT ![s] = "closed"]
           /\ UNCHANGED <<chans, inUse, sbuf, panic>>
    /\ UNCHANGED <<poolvars, nchan, length, bcap, data, nbuf, thrvars, sch, last>>
StreamRecv(s) ==
    /\ panic = "none" /\ spc[s] = "recv"
    /\ IF CanRecv(sch[s]) THEN
           LET b == Head(chans[sch[s]].q) IN
           /\ chans' = Recv(sch[s])
           /\ inUse' = [inUse EXCEPT ![b] = CAS(@, 0, 1)]
           /\ IF inUse[b] = 0
              THEN /\ sbuf' = [sbuf EXCEPT ![s] = b]
                   /\ spc' = [spc EXCEPT ![s] = "send"]
                   /\ panic' = panic
              ELSE /\ panic' = "Buffer already in use"
                   /\ UNCHANGED <<sbuf, spc>>
       ELSE
           /\ sch[s] # NilChan /\ chans[sch[s]].closed
           /\ spc' = [spc EXCEPT ![s] = "closed"]
           /\ UNCHANGED <<chans, inUse, sbuf, panic>>
    /\ UNCHANGED <<poolvars, nchan, length, bcap, data, nbuf, thrvars, sch, last>>

\* out <- buf meets a consumer's receive from the stream (out is unbuffered);
\* a receive from the closed out yields nil
StreamDeliver(t, s) ==
    /\ At(t, "idle") /\ held[t] = NilBuf
    /\ spc[s] \in {"send", "closed"}
    /\ pc' = pc
    /\ IF spc[s] = "send" THEN
           /\ held' = [held EXCEPT ![t] = sbuf[s]]
           /\ sbuf' = [sbuf EXCEPT ![s] = NilBuf]
           /\ spc' = [spc EXCEPT ![s] = "recv"]
           /\ last' = "Stream:found"
       ELSE
           /\ last' = "Stream:closed"
           /\ UNCHANGED <<held, sbuf, spc>>
    /\ UNCHANGED <<poolvars, chanvars, bufvars, idx, sch, panic>>

\* ------------------------------------------------------- specifications
\* any interleaving of the calls of NumThreads goroutines in which every
\* consumer releases only a buffer it holds
Next ==
    \/ \E t \in Admins, count \in Counts, size \in {0, MaxSize} :
          InitBegin(t, count, size) /\ UNCHANGED hvars
    \/ \E t \in Admins : InitFill(t) /\ UNCHANGED hvars
    \/ \E t \in Admins : InitEnd(t) /\ UNCHANGED hvars
    \/ \E t \in Admins : ResetBegin(t) /\ UNCHANGED hvars
    \/ \E t \in Admins : ResetDrain(t) /\ UNCHANGED hvars
    \/ \E t \in Admins : ResetRecv(t) /\ UNCHANGED hvars
    \/ \E t \in Admins : ResetFill(t) /\ UNCHANGED hvars
    \/ \E t \in Admins : ResetEnd(t) /\ UNCHANGED hvars
    \/ \E t \in Admins : PoolReleaseBegin(t) /\ UNCHANGED hvars
    \/ \E t \in Admins : PoolReleaseLock(t) /\ UNCHANGED hvars
    \/ \E t \in Admins : PoolReleaseDrain(t) /\ UNCHANGED hvars
    \/ \E t \in Admins : PoolReleaseRecv(t) /\ UNCHANGED hvars
    \/ \E t \in Admins : PoolReleaseClose(t) /\ UNCHANGED hvars
    \/ \E t \in Consumers : AcquireCheck(t) /\ UNCHANGED hvars
    \/ \E t \in Consumers : AcquireSelect(t) /\ UNCHANGED hvars
    \/ \E t \in Consumers : PutCheck(t) /\ UNCHANGED hvars
    \/ \E t \in Consumers : PutSend(t) /\ UNCHANGED hvars
    \/ \E t \in Consumers : BufferRelease(t) /\ UNCHANGED hvars
    \/ \E t \in Admins, s \in Streams : BufferChan(t, s) /\ UNCHANGED hvars
    \/ \E s \in Streams : StreamStart(s) /\ UNCHANGED hvars
    \/ \E s \in Streams : StreamRecv(s) /\ UNCHANGED hvars
    \/ \E t \in Consumers, s \in Streams : StreamDeliver(t, s) /\ UNCHANGED hvars

Spec == Init /\ [][Next]_vars

InitResults == {"Init:nil", "Init:released", "Init:invalid"}

\* no thread is inside a call
AllIdle == \A t \in Threads : pc[t] = "idle"

\* no thread but t is inside a call
Quiet(t) == \A u \in Threads \ {t} : pc[u] = "idle"

\* the harness of SpecSeq after a step of thread t that is part of a call
\* on the pool: the buffer count when a Reset begins, whether a buffer from
\* before that Reset went back on the list, and Available() as it was when
\* a thread acquired the buffer it holds, kept until any other call is made
SeqHarness(t) ==
    /\ gen' = IF pc[t] = "idle" /\ pc'[t] = "reset_drain" THEN nbuf ELSE gen
    /\ orphan' =
          IF pc[t] = "idle" /\ pc'[t] = "reset_drain" THEN FALSE
          ELSE IF pc[t] = "put_send" /\ pc'[t] = "idle" /\ held[t] <= gen THEN TRUE
          ELSE orphan
    /\ snap' = [u \in Threads |->
          IF u # t THEN NoSnap
          ELSE IF pc[t] = "acq_select" /\ pc'[t] = "idle" /\ held'[t] # NilBuf
             THEN <<Available>>
          ELSE IF pc[t] = "idle" /\ pc'[t] = "put_check" /\ Len(snap[t]) = 1
             THEN <<snap[t][1], length[held[t]]>>
          ELSE IF pc[t] = "put_check" /\ pc'[t] = "put_send"
             THEN snap[t]
          ELSE IF pc[t] \in {"put_check", "put_send"} /\ pc'[t] = "idle"
                  /\ Len(snap[t]) = 2
             THEN Append(snap[t], 0)
          ELSE NoSnap]
    /\ UNCHANGED <<done, old, obs>>

\* a step of a call by thread t while no other call is running (args is
\* kept for as long as the last call that returned is that Init)
SeqStep(t, A) ==
    /\ Quiet(t) /\ A
    /\ args' = IF pc'[t] = "init_fill" \/ last' \in InitResults THEN args ELSE <<0, 0>>
    /\ SeqHarness(t)

\* calls on the pool one at a time: the lifecycle calls by the admins,
\* Acquire and Buffer.Release by any thread, SetLength by one consumer; no
\* stream goroutine runs
SeqNext ==
    \/ \E t \in Admins, count \in Counts, size \in {0, MaxSize} :
          Quiet(t) /\ InitBegin(t, count, size) /\ args' = <<count, size>>
          /\ SeqHarness(t)
    \/ \E t \in Admins : SeqStep(t, InitFill(t))
    \/ \E t \in Admins : SeqStep(t, InitEnd(t))
    \/ \E t \in Admins : SeqStep(t, ResetBegin(t))
    \/ \E t \in Admins : SeqStep(t, ResetDrain(t))
    \/ \E t \in Admins : SeqStep(t, ResetRecv(t))
    \/ \E t \in Admins : SeqStep(t, ResetFill(t))
    \/ \E t \in Admins : SeqStep(t, ResetEnd(t))
    \/ \E t \in Admins : SeqStep(t, PoolReleaseBegin(t))
    \/ \E t \in Admins : SeqStep(t, PoolReleaseLock(t))
    \/ \E t \in Admins : SeqStep(t, PoolReleaseDrain(t))
    \/ \E t \in Admins : SeqStep(t, PoolReleaseRecv(t))
    \/ \E t \in Admins : SeqStep(t, PoolReleaseClose(t))
    \/ \E t \in Threads : SeqStep(t, AcquireCheck(t))
    \/ \E t \in Threads : SeqStep(t, AcquireSelect(t))
    \/ \E t \in Threads : SeqStep(t, BufferRelease(t))
    \/ \E t \in Threads : SeqStep(t, PutCheck(t))
    \/ \E t \in Threads : SeqStep(t, PutSend(t))
    \/ \E t \in {Mutator}, n \in SeqLens :
          Quiet(t) /\ BufferSetLength(t, n) /\ UNCHANGED hvars

SpecSeq == Init /\ [][SeqNext]_vars

\* the harness of SpecCycles after a step of consumer t: its cycle is over
\* when it is back outside every call holding nothing
CycHarness(t) ==
    /\ done' = IF pc'[t] = "idle" /\ held'[t] = NilBuf THEN done \cup {t} ELSE done
    /\ UNCHANGED <<old, args, snap, gen, orphan, obs>>

\* TestConcurrentAccess: one Init(count, size) with count < NumConsumers,
\* then every consumer runs one acquire / mutate / release cycle, all
\* concurrently
CycNext ==
    \/ \E t \in Admins, count \in 1..MaxCount, size \in 1..MaxSize :
          /\ nchan = 0 /\ count < NumConsumers
          /\ InitBegin(t, count, size) /\ UNCHANGED hvars
    \/ \E t \in Admins : InitFill(t) /\ UNCHANGED hvars
    \/ \E t \in Admins : InitEnd(t) /\ UNCHANGED hvars
    \/ \E t \in Consumers :
          t \notin done /\ isInitialized /\ AcquireCheck(t) /\ CycHarness(t)
    \/ \E t \in Consumers : AcquireSelect(t) /\ CycHarness(t)
    \/ \E t \in Consumers, n \in Lens : BufferSetLength(t, n) /\ UNCHANGED hvars
    \/ \E t \in Consumers : BufferRelease(t) /\ CycHarness(t)
    \/ \E t \in Consumers : PutCheck(t) /\ CycHarness(t)
    \/ \E t \in Consumers : PutSend(t) /\ CycHarness(t)

SpecCycles == Init /\ [][CycNext]_vars

\* a step of a call by thread t while no other call is running, where a
\* consumer keeps the pointer to the buffer it releases
MisStep(t, A) ==
    /\ Quiet(t) /\ A
    /\ old' = [old EXCEPT ![t] =
                  IF pc[t] = "idle" /\ pc'[t] = "put_check" THEN held'[t] ELSE @]
    /\ UNCHANGED <<done, args, snap, gen, orphan, obs>>

\* calls on the pool one at a time in which a consumer may call
\* Buffer.Release again on the buffer it released last
MisNext ==
    \/ \E t \in Admins, count \in 1..MaxCount :
          MisStep(t, InitBegin(t, count, MaxSize))
    \/ \E t \in Admins : MisStep(t, InitFill(t))
    \/ \E t \in Admins : MisStep(t, InitEnd(t))
    \/ \E t \in Admins : MisStep(t, ResetBegin(t))
    \/ \E t \in Admins : MisStep(t, ResetDrain(t))
    \/ \E t \in Admins : MisStep(t, ResetRecv(t))
    \/ \E t \in Admins : MisStep(t, ResetFill(t))
    \/ \E t \in Admins : MisStep(t, ResetEnd(t))
    \/ \E t \in Admins : MisStep(t, PoolReleaseBegin(t))
    \/ \E t \in Admins : MisStep(t, PoolReleaseLock(t))
    \/ \E t \in Admins : MisStep(t, PoolReleaseDrain(t))
    \/ \E t \in Admins : MisStep(t, PoolReleaseRecv(t))
    \/ \E t \in Admins : MisStep(t, PoolReleaseClose(t))
    \/ \E t \in Consumers : MisStep(t, AcquireCheck(t))
    \/ \E t \in Consumers : MisStep(t, AcquireSelect(t))
    \/ \E t \in Consumers : MisStep(t, BufferRelease(t))
    \/ \E t \in Consumers : MisStep(t, StaleRelease(t))
    \/ \E t \in Consumers : MisStep(t, PutCheck(t))
    \/ \E t \in Consumers : MisStep(t, PutSend(t))

SpecMisuse == Init /\ [][MisNext]_vars

\* ---------------------------------------------------------------- claims
\* the pcs at which held[t] is a buffer on its way back to the free list
PutPcs == {"put_check", "put_send", "aput_check", "aput_send"}

\* thread t holds buffer b as its acquirer
Holding(t, b) == b # NilBuf /\ held[t] = b /\ pc[t] \notin PutPcs

\* the acquirers of buffer b: the threads holding it and the stream
\* goroutines that marked it in use and are delivering it
Holders(b) == {t \in Threads : Holding(t, b)}
StreamsWith(b) == {s \in Streams : sbuf[s] = b}

\* C1: under correct use no Buffer is held by two acquirers at once, in any
\* interleaving of Acquire, stream deliveries, Buffer.Release and Reset
C1_Exclusive ==
    \A b \in 1..nbuf : Cardinality(Holders(b)) + Cardinality(StreamsWith(b)) <= 1

\* two consumers hold buffers at once, one allocated by Init and one by a
\* later Reset, the last of them delivered by the stream
C1_Witness ==
    /\ nchan = 1 /\ panic = "none" /\ last = "Stream:found"
    /\ \E t, u \in Consumers :
          /\ Holding(t, held[t]) /\ Holding(u, held[u])
          /\ held[t] <= bufCount /\ held[u] > bufCount

\* C2: with more consumers than buffers each running one acquire / mutate /
\* release cycle, Available() stays within [0, count], nothing panics, and
\* once every cycle is over Available() = count
C2_Cycles ==
    /\ panic = "none"
    /\ Available \in 0..bufCount
    /\ done = Consumers => isInitialized /\ Available = bufCount

\* every cycle is over, the last call to return was a Buffer.Release
C2_Witness ==
    /\ done = Consumers /\ NumConsumers > bufCount /\ bufCount > 0
    /\ last = "Release:void" /\ Available = bufCount

\* C3: a second Buffer.Release for the same acquisition always panics,
\* whatever other consumers did in between (a consumer that holds nothing
\* and calls Release on the buffer it released last never gets into put)
C3_SecondReleaseAborts ==
    [][\A t \in Consumers :
         pc[t] = "idle" /\ held[t] = NilBuf /\ old[t] # NilBuf
            => pc'[t] # "put_check"]_vars

\* C4: once Pool.Release has been called, a call of Acquire, BufferChan,
\* Reset, Pool.Release (or Init) that begins returns in one step, with
\* not-found / nil / nothing, changes nothing in the pool, its channels, its
\* buffers or its streams and does not panic; Available() is 0
C4_ReleasedInert ==
    [][isReleased = 1 =>
         /\ Available = 0 /\ Available' = 0
         /\ \A t \in Threads : pc[t] = "idle" => pc'[t] \in {"idle", "put_check"}
         /\ (pc' = pc /\ last' # last /\ last' \notin {"Stream:found", "Stream:closed"}) =>
               /\ last' \in {"Acquire:notfound", "BufferChan:nil", "Reset:void",
                              "PoolRelease:void", "Init:released"}
               /\ UNCHANGED <<poolvars, chanvars, bufvars, held, strvars, panic>>]_vars

\* the pool is released and closed and a later Acquire returned not-found
C4_Witness ==
    /\ isReleased = 1 /\ buffers # NilChan /\ chans[buffers].closed
    /\ \A t \in Threads : pc[t] = "idle"
    /\ last = "Acquire:notfound" /\ panic = "none"

\* C5: Init(count, size) with count > 0 and size > 0 on a pool that is not
\* released, fresh or already initialized, returns no error (an error is
\* returned only for a released pool or an invalid argument), and when it
\* has returned Available() = count
C5_InitOk ==
    AllIdle =>
       /\ last = "Init:released" => isReleased = 1
       /\ last = "Init:invalid" => args[1] <= 0 \/ args[2] <= 0
       /\ last = "Init:nil" =>
             args[1] > 0 /\ args[2] > 0 /\ bufCount = args[1] /\ Available = args[1]

\* a second Init has just returned nil on a pool a consumer holds a buffer of
C5_Witness ==
    /\ last = "Init:nil" /\ AllIdle /\ nchan = 2 /\ Available = args[1]
    /\ \E t \in Threads : held[t] # NilBuf

\* C6: Init with count <= 0 or size <= 0 returns an error and changes
\* nothing in the pool, its free list or its buffers
C6_InvalidInit ==
    [][/\ \A t \in Threads :
            pc[t] = "idle" /\ pc'[t] = "init_fill" => args'[1] > 0 /\ args'[2] > 0
       /\ (pc' = pc /\ last' = "Init:invalid" /\ (last' # last \/ args' # args)) =>
            UNCHANGED <<poolvars, chanvars, bufvars, held, strvars, panic>>]_vars

\* Init has just returned the configuration error on an initialized pool
\* with buffers on its free list
C6_Witness ==
    /\ last = "Init:invalid" /\ AllIdle /\ args[1] > 0 /\ args[2] <= 0
    /\ isInitialized /\ isReleased = 0 /\ Available > 0

\* C7: isReleased is one-way, and every Init call that begins once it is set
\* returns the released error, whatever its arguments, making no channel
C7_ReleasedForever ==
    [][isReleased = 1 =>
         /\ isReleased' = 1
         /\ nchan' = nchan
         /\ \A t \in Threads : pc[t] = "idle" => pc'[t] # "init_fill"
         /\ (pc' = pc /\ last' # last /\ last' \in InitResults) =>
               /\ last' = "Init:released"
               /\ UNCHANGED <<poolvars, chanvars, bufvars>>]_vars

\* Init has just returned the released error on a released pool
C7_Witness ==
    /\ isReleased = 1 /\ last = "Init:released" /\ panic = "none" /\ AllIdle

\* C8: an Acquire on a pool with n > 0 free buffers succeeds and leaves
\* n - 1; on a pool with none it returns not-found and changes nothing; and
\* the Buffer.Release after which no buffer is held leaves count free
C8_Exhaustion ==
    [][\A t \in Threads :
         /\ pc[t] = "acq_select" /\ pc'[t] = "idle" =>
               IF Available > 0
               THEN /\ last' = "Acquire:found" /\ Available' = Available - 1
                    /\ held'[t] # NilBuf /\ inUse'[held'[t]] = 1
               ELSE /\ last' = "Acquire:notfound" /\ held'[t] = NilBuf
                    /\ UNCHANGED <<poolvars, chanvars, bufvars>>
         /\ (/\ pc[t] \in {"put_check", "put_send"} /\ pc'[t] = "idle"
             /\ \A u \in Threads : held'[u] = NilBuf) =>
               Available' = bufCount]_vars

\* MaxCount buffers of one Init are all held and one more Acquire has just
\* returned not-found
C8_Witness ==
    /\ last = "Acquire:notfound" /\ AllIdle /\ isInitialized /\ isReleased = 0
    /\ nchan = 1 /\ nbuf = MaxCount /\ bufCount = MaxCount /\ Available = 0
    /\ Cardinality({t \in Threads : held[t] # NilBuf}) = MaxCount

\* C9: with no other call in between, Acquire then Buffer.Release leaves
\* Available() as it was before the Acquire and the buffer's length 0,
\* whatever SetLength calls came in between, and does not panic
C9_RoundTrip ==
    [][\A t \in Threads :
         Len(snap[t]) \in {1, 2} =>
           /\ panic' = "none"
           /\ pc[t] \in {"put_check", "put_send"} /\ pc'[t] = "idle" =>
                 /\ Available' = snap[t][1]
                 /\ length'[held[t]] = 0 /\ inUse'[held[t]] = 0]_vars

\* a consumer has acquired a buffer, set a length other than 0, released it
C9_Witness ==
    \E t \in Threads :
       /\ Len(snap[t]) = 3 /\ snap[t][2] # 0 /\ Available = snap[t][1]
       /\ last = "Release:void" /\ panic = "none"

\* C10 as stated: when Reset returns Available() = count, and every buffer
\* acquired after a Reset was made by it or later (was not there before it)
C10_AllFresh ==
    [][\A t \in Threads :
         /\ pc[t] = "reset_fill" /\ pc'[t] = "idle" => Available' = bufCount
         /\ (gen >= 0 /\ pc[t] = "acq_select" /\ pc'[t] = "idle" /\ held'[t] # NilBuf) =>
               held'[t] > gen /\ length'[held'[t]] = 0]_vars

\* C10 amended: when Reset returns, the free list holds exactly count
\* buffers, each made by this Reset with inUse 0 and length 0, however many
\* buffers were free or held before; and a buffer acquired after it is
\* such a new one as long as no buffer from before the Reset was put back
C10_ResetFresh ==
    [][\A t \in Threads :
         /\ pc[t] = "reset_fill" /\ pc'[t] = "idle" =>
               /\ Available' = bufCount
               /\ Len(chans'[buffers].q) = bufCount
               /\ \A i \in 1..bufCount :
                     LET b == chans'[buffers].q[i] IN
                     b > gen /\ inUse'[b] = 0 /\ length'[b] = 0 /\ bcap'[b] = bufSize
         /\ (/\ gen >= 0 /\ ~orphan
             /\ pc[t] = "acq_select" /\ pc'[t] = "idle" /\ held'[t] # NilBuf) =>
               held'[t] > gen /\ length'[held'[t]] = 0]_vars

\* after a Reset made with a buffer held, a consumer has just acquired one
\* of the new buffers while the old one is still held
C10_Witness ==
    /\ gen >= 1 /\ ~orphan /\ last = "Acquire:found" /\ AllIdle /\ Available = bufCount - 1
    /\ \E t, u \in Threads :
          held[t] > gen /\ held[u] # NilBuf /\ held[u] <= gen

\* thread t holds a buffer made before the last Reset
Orphaned(t) == gen >= 0 /\ held[t] # NilBuf /\ held[t] <= gen

\* the free list of a pool that is not released is full of buffers made by
\* the last Reset
FullOfNew ==
    /\ isReleased = 0 /\ isInitialized /\ buffers # NilChan
    /\ Len(chans[buffers].q) = bufCount
    /\ \A i \in 1..Len(chans[buffers].q) : chans[buffers].q[i] > gen

\* C11: Buffer.Release of a buffer held since before a Reset, called while
\* the free list is full of the buffers that Reset made, gets through the
\* compare-and-swap and put's released check, panics with the full-pool
\* message in put's select, and adds nothing to the free list
C11_OrphanRelease ==
    [][\A t \in Threads :
         (/\ Orphaned(t) /\ FullOfNew
          /\ pc[t] \in {"put_check", "put_send"} \/ pc'[t] = "put_check") =>
            /\ chans' = chans
            /\ pc[t] = "idle" => panic' = "none"
            /\ pc[t] = "put_check" => pc'[t] = "put_send" /\ panic' = "none"
            /\ pc[t] = "put_send" =>
                  panic' = "Attempting to return a buffer to a full pool"]_vars

\* TestResetEdgeCases: both buffers of Init(2, _) acquired, Reset, and the
\* Release of one of them has just panicked
C11_Witness ==
    /\ panic = "Attempting to return a buffer to a full pool"
    /\ bufCount = MaxCount /\ gen = MaxCount /\ FullOfNew
    /\ \E t, u \in Threads : t # u /\ Orphaned(t) /\ Orphaned(u) /\ pc[t] = "put_send"

\* C12: a Reset call on a pool that is released or not initialized never
\* gets to its drain loop; it returns in a step that leaves the pool
\* fields, the channels, the buffers and the streams unchanged, does not
\* panic, and Available() is 0 before and after
C12_ResetNoop ==
    [][isReleased = 1 \/ ~isInitialized =>
         /\ \A t \in Threads : pc[t] = "idle" => pc'[t] # "reset_drain"
         /\ (pc' = pc /\ last' = "Reset:void" /\ last # "Reset:void") =>
               /\ UNCHANGED <<poolvars, chanvars, bufvars, held, strvars, panic>>
               /\ Available = 0 /\ Available' = 0]_vars

\* Reset has just returned on a pool no Init ever succeeded on
C12_Witness ==
    /\ last = "Reset:void" /\ nchan = 0 /\ ~isInitialized /\ isReleased = 0
    /\ buffers = NilChan /\ Available = 0 /\ panic = "none"

\* --------------------------------------------------- the blocking stream
\* every buffer of the pool is held by a thread that acquired it
AllHeld ==
    /\ isInitialized /\ isReleased = 0
    /\ Cardinality({b \in 1..nbuf : Holders(b) # {}}) = bufCount

\* the harness of SpecStream: the buffer a thread released last, and
\* whether the stream goroutine was seen waiting with every buffer held
StrHarness ==
    /\ old' = [t \in Threads |->
                  IF pc[t] = "idle" /\ pc'[t] = "put_check" THEN held'[t] ELSE old[t]]
    /\ done' = IF AllHeld' /\ (\E s \in Streams : spc'[s] = "recv")
               THEN {Reader} ELSE done
    /\ UNCHANGED <<args, snap, gen, orphan, obs>>

\* TestBufferChan generalised: one Init, Acquire calls by the other threads
\* until the stream is opened, then the Reader receives from the stream
\* and every holder may release its buffer
StrNext ==
    \/ \E t \in Admins, count \in 1..MaxCount :
          nchan = 0 /\ InitBegin(t, count, MaxSize) /\ StrHarness
    \/ \E t \in Admins : InitFill(t) /\ StrHarness
    \/ \E t \in Admins : InitEnd(t) /\ StrHarness
    \/ \E t \in Threads \ {Reader} :
          /\ isInitialized /\ \A s \in Streams : spc[s] = "none"
          /\ AcquireCheck(t) /\ StrHarness
    \/ \E t \in Threads \ {Reader} : AcquireSelect(t) /\ StrHarness
    \/ \E t \in Admins, s \in Streams :
          /\ isInitialized /\ \A r \in Streams : spc[r] = "none"
          /\ \A u \in Threads : pc[u] = "idle"
          /\ BufferChan(t, s) /\ StrHarness
    \/ \E s \in Streams : StreamStart(s) /\ StrHarness
    \/ \E s \in Streams : StreamRecv(s) /\ StrHarness
    \/ \E s \in Streams : StreamDeliver(Reader, s) /\ StrHarness
    \/ \E t \in Threads : BufferRelease(t) /\ StrHarness
    \/ \E t \in Threads : PutCheck(t) /\ StrHarness
    \/ \E t \in Threads : PutSend(t) /\ StrHarness

\* the stream goroutine is scheduled fairly and the Reader keeps receiving
StrFair ==
    \A s \in Streams :
       /\ WF_vars(StreamStart(s) /\ StrHarness)
       /\ WF_vars(StreamRecv(s) /\ StrHarness)
       /\ WF_vars(StreamDeliver(Reader, s) /\ StrHarness)

SpecStream == Init /\ [][StrNext]_vars /\ StrFair

\* C13: while every buffer of the pool is held by threads the stream
\* goroutine has nothing to send and has not closed out (the Reader's
\* receive blocks); and once the stream is open, the Reader waits and a
\* buffer is free or on its way through the stream, the Reader eventually
\* holds a buffer
C13_StreamBlocks ==
    /\ [](AllHeld => \A s \in Streams : spc[s] \notin {"send", "closed"})
    /\ \A s \in Streams :
          (/\ spc[s] \in {"start", "recv", "send"} /\ held[Reader] = NilBuf
           /\ Available > 0 \/ sbuf[s] # NilBuf) ~> (held[Reader] # NilBuf)

\* the stream goroutine waited with every buffer held, then the Reader
\* received the buffer another thread had released
C13_Witness ==
    /\ Reader \in done /\ last = "Stream:found" /\ panic = "none"
    /\ \E t \in Threads \ {Reader} :
          old[t] # NilBuf /\ held[Reader] = old[t] /\ held[t] = NilBuf

\* ------------------------------------------- streams over the lifecycle
\* the lifecycle calls and BufferChan in any order by the admins, the
\* stream goroutines, and consumers that receive from the streams and
\* release what they receive
LifeNext ==
    \/ \E t \in Admins, count \in 1..MaxCount :
          InitBegin(t, count, MaxSize) /\ UNCHANGED hvars
    \/ \E t \in Admins : InitFill(t) /\ UNCHANGED hvars
    \/ \E t \in Admins : InitEnd(t) /\ UNCHANGED hvars
    \/ \E t \in Admins : PoolReleaseBegin(t) /\ UNCHANGED hvars
    \/ \E t \in Admins : PoolReleaseLock(t) /\ UNCHANGED hvars
    \/ \E t \in Admins : PoolReleaseDrain(t) /\ UNCHANGED hvars
    \/ \E t \in Admins : PoolReleaseRecv(t) /\ UNCHANGED hvars
    \/ \E t \in Admins : PoolReleaseClose(t) /\ UNCHANGED hvars
    \/ \E t \in Admins, s \in Streams : BufferChan(t, s) /\ UNCHANGED hvars
    \/ \E s \in Streams : StreamStart(s) /\ UNCHANGED hvars
    \/ \E s \in Streams : StreamRecv(s) /\ UNCHANGED hvars
    \/ \E t \in Consumers, s \in Streams : StreamDeliver(t, s) /\ UNCHANGED hvars
    \/ \E t \in Consumers : BufferRelease(t) /\ UNCHANGED hvars
    \/ \E t \in Consumers : PutCheck(t) /\ UNCHANGED hvars
    \/ \E t \in Consumers : PutSend(t) /\ UNCHANGED hvars

\* every goroutine that can take a step eventually does: a Pool.Release
\* call runs to its end, the stream goroutines run, the consumers keep
\* receiving and hand back what they received
LifeFair ==
    /\ \A t \in Admins :
          /\ WF_vars(PoolReleaseLock(t) /\ UNCHANGED hvars)
          /\ WF_vars(PoolReleaseDrain(t) /\ UNCHANGED hvars)
          /\ WF_vars(PoolReleaseRecv(t) /\ UNCHANGED hvars)
          /\ WF_vars(PoolReleaseClose(t) /\ UNCHANGED hvars)
          /\ WF_vars(InitFill(t) /\ UNCHANGED hvars)
          /\ WF_vars(InitEnd(t) /\ UNCHANGED hvars)
    /\ \A s \in Streams :
          /\ WF_vars(StreamStart(s) /\ UNCHANGED hvars)
          /\ WF_vars(StreamRecv(s) /\ UNCHANGED hvars)
          /\ WF_vars(\E t \in Consumers : StreamDeliver(t, s) /\ UNCHANGED hvars)
    /\ \A t \in Consumers :
          /\ WF_vars(BufferRelease(t) /\ UNCHANGED hvars)
          /\ WF_vars(PutCheck(t) /\ UNCHANGED hvars)
          /\ WF_vars(PutSend(t) /\ UNCHANGED hvars)

SpecLife == Init /\ [][LifeNext]_vars /\ LifeFair

\* Pool.Release has run to its end: the flag is set and p.buffers is closed
ReleaseReturned ==
    isReleased = 1 /\ buffers # NilChan /\ chans[buffers].closed

\* C14: once Pool.Release has returned, the goroutine of every stream that
\* BufferChan returned ends its range and closes out (runs that a panic
\* stopped are left aside)
C14_StreamCloses ==
    \A s \in Streams :
       (ReleaseReturned /\ spc[s] # "none" /\ panic = "none")
          ~> (spc[s] = "closed" \/ panic # "none")

\* ------------------------------------------------- the Buffer's methods
\* a step of SpecBuffer that is no call of SetLength or GetValidData
BufStep(A) == A /\ obs' = <<>> /\ UNCHANGED <<done, old, args, snap, gen, orphan>>

\* TestBufferOperations generalised: one Init, then the consumers acquire
\* buffers, write into them through GetFullData, call SetLength with any
\* length and GetValidData, and release them
BufNext ==
    \/ \E t \in Admins, count \in 1..MaxCount, size \in 1..MaxSize :
          nchan = 0 /\ BufStep(InitBegin(t, count, size))
    \/ \E t \in Admins : BufStep(InitFill(t))
    \/ \E t \in Admins : BufStep(InitEnd(t))
    \/ \E t \in Consumers : isInitialized /\ BufStep(AcquireCheck(t))
    \/ \E t \in Consumers : BufStep(AcquireSelect(t))
    \/ \E t \in Consumers, i \in 1..MaxSize, v \in Vals : BufStep(BufferWrite(t, i, v))
    \/ \E t \in Consumers, n \in Lens :
          /\ BufferSetLength(t, n)
          /\ obs' = <<"SetLength", held[t], n>>
          /\ UNCHANGED <<done, old, args, snap, gen, orphan>>
    \/ \E t \in Consumers :
          /\ BufferGetValidData(t)
          /\ obs' = IF panic' = "none"
                    THEN <<"GetValidData", held[t], GetValidData(held[t])>>
                    ELSE <<>>
          /\ UNCHANGED <<done, old, args, snap, gen, orphan>>
    \/ \E t \in Consumers : BufStep(BufferRelease(t))
    \/ \E t \in Consumers : BufStep(PutCheck(t))
    \/ \E t \in Consumers : BufStep(PutSend(t))

SpecBuffer == Init /\ [][BufNext]_vars

\* C15: the length of every allocated buffer is within 0 .. cap(data)
C15_LengthInRange ==
    \A b \in 1..nbuf : length[b] >= 0 /\ length[b] <= bcap[b]

\* C16: SetLength(n) on a buffer of capacity C stores min(n, C), so C for
\* n > C and n for 0 <= n <= C, does not panic, and changes nothing else of
\* the buffer, of the other buffers or of the pool
C16_SetLengthClamps ==
    [][Len(obs') = 3 /\ obs'[1] = "SetLength" =>
         LET b == obs'[2]
             n == obs'[3]
             C == bcap[b]
         IN /\ length'[b] = IF n < C THEN n ELSE C
            /\ n > C => length'[b] = C
            /\ 0 <= n /\ n <= C => length'[b] = n
            /\ \A c \in Bufs \ {b} : length'[c] = length[c]
            /\ panic' = "none"
            /\ UNCHANGED <<data, inUse, bcap, nbuf, poolvars, chanvars, thrvars>>]_vars

\* SetLength with a length beyond the capacity has just been called on a
\* buffer whose data was written
C16_Witness ==
    /\ Len(obs) = 3 /\ obs[1] = "SetLength" /\ panic = "none"
    /\ obs[3] > bcap[obs[2]] /\ GetLength(obs[2]) = bcap[obs[2]]
    /\ \E i \in 1..bcap[obs[2]] : GetFullData(obs[2])[i] # 0

\* C17: no call of GetValidData panics, and the slice it returns has
\* GetLength() elements, equal to the first elements of GetFullData()
C17_ValidData ==
    /\ panic # "slice bounds out of range"
    /\ Len(obs) = 3 /\ obs[1] = "GetValidData" =>
          /\ Len(obs[3]) = GetLength(obs[2])
          /\ \A i \in 1..Len(obs[3]) : obs[3][i] = GetFullData(obs[2])[i]

\* C18: every buffer queued on a channel has inUse 0, no acquirer, and is
\* queued once, on one channel; every buffer a thread acquired (from
\* Acquire or from a stream) and every buffer a stream goroutine is about
\* to deliver has inUse 1
C18_FlagAgrees ==
    /\ \A c \in 1..nchan : \A i \in 1..Len(chans[c].q) :
          LET b == chans[c].q[i] IN
          /\ inUse[b] = 0
          /\ Holders(b) = {} /\ StreamsWith(b) = {}
          /\ \A d \in 1..nchan : \A j \in 1..Len(chans[d].q) :
                chans[d].q[j] = b => d = c /\ j = i
    /\ \A t \in Threads : Holding(t, held[t]) => inUse[held[t]] = 1
    /\ \A s \in Streams : sbuf[s] # NilBuf => inUse[sbuf[s]] = 1

\* one buffer is held by a thread, one is with a stream goroutine that
\* marked it, and one is on the free list
C18_Witness ==
    /\ panic = "none" /\ isReleased = 0 /\ ChanLen(buffers) > 0
    /\ \E t \in Consumers : Holding(t, held[t]) /\ last = "Acquire:found"
    /\ \E s \in Streams : sbuf[s] # NilBuf

\* ------------------------------------------ a flag set by an outside fault
\* something outside the pool's methods writes the inUse flag of a buffer
\* that is on the free list: 1 (the fault Acquire defends against), or 0
\* again
Fault(b, v) ==
    /\ panic = "none"
    /\ buffers # NilChan /\ \E i \in 1..Len(chans[buffers].q) : chans[buffers].q[i] = b
    /\ inUse[b] # v
    /\ inUse' = [inUse EXCEPT ![b] = v]
    /\ UNCHANGED <<poolvars, chanvars, length, bcap, data, nbuf, thrvars, strvars,
                   last, panic>>

\* the same fault on the buffer a thread has just dequeued: the flag goes
\* back to 0 between Acquire's compare-and-swap and put's load
FaultEnds(t) ==
    /\ panic = "none" /\ pc[t] \in {"aput_check", "aput_send"}
    /\ inUse[held[t]] = 1
    /\ inUse' = [inUse EXCEPT ![held[t]] = 0]
    /\ UNCHANGED <<poolvars, chanvars, length, bcap, data, nbuf, thrvars, strvars,
                   last, panic>>

\* one Init, then Acquire and Buffer.Release calls by the consumers while
\* the fault may strike the buffers on the free list
FaultNext ==
    \/ \E t \in Admins, count \in 1..MaxCount :
          nchan = 0 /\ InitBegin(t, count, MaxSize) /\ UNCHANGED hvars
    \/ \E t \in Admins : InitFill(t) /\ UNCHANGED hvars
    \/ \E t \in Admins : InitEnd(t) /\ UNCHANGED hvars
    \/ \E b \in 1..nbuf, v \in {0, 1} : isInitialized /\ Fault(b, v) /\ UNCHANGED hvars
    \/ \E t \in Consumers : FaultEnds(t) /\ UNCHANGED hvars
    \/ \E t \in Consumers : isInitialized /\ AcquireCheck(t) /\ UNCHANGED hvars
    \/ \E t \in Consumers : AcquireSelect(t) /\ UNCHANGED hvars
    \/ \E t \in Consumers : BufferRelease(t) /\ UNCHANGED hvars
    \/ \E t \in Consumers : PutCheck(t) /\ UNCHANGED hvars
    \/ \E t \in Consumers : PutSend(t) /\ UNCHANGED hvars

SpecFault == Init /\ [][FaultNext]_vars

\* C19: an Acquire whose compare-and-swap on the dequeued buffer failed
\* hands nothing out at that step, does not panic in the put that follows,
\* and leaves put for the retry with the buffer back on the free list
C19_RetryNoAbort ==
    [][\A t \in Threads :
         /\ pc[t] = "acq_select" /\ pc'[t] = "aput_check" => last' = last
         /\ pc[t] \in {"aput_check", "aput_send"} => panic' = "none"
         /\ pc[t] = "aput_send" /\ pc'[t] # "aput_send" =>
               /\ pc'[t] = "acq_check" /\ held'[t] = NilBuf
               /\ chans'[buffers].q = Append(chans[buffers].q, held[t])]_vars

\* ------------------------------------------------ a pool initialized once
\* one Init and no Reset: Acquire, stream deliveries and Buffer.Release by
\* the holder in any interleaving, and Pool.Release at any time after Init
OnceNext ==
    \/ \E t \in Admins, count \in 1..MaxCount :
          nchan = 0 /\ InitBegin(t, count, MaxSize) /\ UNCHANGED hvars
    \/ \E t \in Admins : InitFill(t) /\ UNCHANGED hvars
    \/ \E t \in Admins : InitEnd(t) /\ UNCHANGED hvars
    \/ \E t \in Admins : isInitialized /\ PoolReleaseBegin(t) /\ UNCHANGED hvars
    \/ \E t \in Admins : PoolReleaseLock(t) /\ UNCHANGED hvars
    \/ \E t \in Admins : PoolReleaseDrain(t) /\ UNCHANGED hvars
    \/ \E t \in Admins : PoolReleaseRecv(t) /\ UNCHANGED hvars
    \/ \E t \in Admins : PoolReleaseClose(t) /\ UNCHANGED hvars
    \/ \E t \in Consumers : AcquireCheck(t) /\ UNCHANGED hvars
    \/ \E t \in Consumers : AcquireSelect(t) /\ UNCHANGED hvars
    \/ \E t \in Consumers : PutCheck(t) /\ UNCHANGED hvars
    \/ \E t \in Consumers : PutSend(t) /\ UNCHANGED hvars
    \/ \E t \in Consumers : BufferRelease(t) /\ UNCHANGED hvars
    \/ \E t \in Admins, s \in Streams : BufferChan(t, s) /\ UNCHANGED hvars
    \/ \E s \in Streams : StreamStart(s) /\ UNCHANGED hvars
    \/ \E s \in Streams : StreamRecv(s) /\ UNCHANGED hvars
    \/ \E t \in Consumers, s \in Streams : StreamDeliver(t, s) /\ UNCHANGED hvars

SpecOnce == Init /\ [][OnceNext]_vars

\* C20: on a pool initialized once and never Reset, with every buffer
\* released by its holder only, put never panics with the full-pool or the
\* still-in-use message
C20_NoPutAbort ==
    panic \notin {"Attempting to return a buffer to a full pool",
                  "Attempting to return a buffer that is still in use"}

\* with a stream open, a Buffer.Release has just filled the free list up
\* to its capacity
C20_Witness ==
    /\ last = "Release:void" /\ panic = "none" /\ isReleased = 0
    /\ bufCount = MaxCount /\ ChanLen(buffers) = bufCount
    /\ \E s \in Streams : spc[s] = "recv" /\ sch[s] = buffers

\* C21: once Pool.Release has returned, Buffer.Release by a thread that
\* still holds a buffer does not panic: the compare-and-swap sets inUse to
\* 0, the length becomes 0, put returns at its released check without a
\* send, and Available() stays 0
C21_ReleaseAfterPoolRelease ==
    [][\A t \in Threads :
         ReleaseReturned /\ held[t] # NilBuf =>
            /\ panic' = "none" /\ chans' = chans
            /\ Available = 0 /\ Available' = 0
            /\ pc[t] = "idle" /\ pc'[t] # "idle" =>
                  /\ pc'[t] = "put_check"
                  /\ inUse'[held[t]] = 0 /\ length'[held[t]] = 0
            /\ pc[t] = "put_check" =>
                  /\ pc'[t] = "idle" /\ held'[t] = NilBuf /\ last' = "Release:void"
                  /\ inUse'[held[t]] = 0 /\ length'[held[t]] = 0]_vars

\* on a released pool a Buffer.Release has just returned; the buffer is on
\* no channel and free
C21_Witness ==
    /\ ReleaseReturned /\ last = "Release:void" /\ panic = "none" /\ AllIdle
    /\ \A c \in Chans : chans[c].q = <<>>
    /\ \A t \in Threads : held[t] = NilBuf
    /\ \A b \in 1..nbuf : inUse[b] = 0 /\ length[b] = 0

\* the calls of SpecMisuse, and the fault of SpecFault striking between
\* calls: every panic of Buffer.Release and put can be reached
AbortNext ==
    \/ MisNext
    \/ \E b \in 1..nbuf, v \in {0, 1} :
          AllIdle /\ isInitialized /\ Fault(b, v) /\ UNCHANGED hvars

SpecAbort == Init /\ [][AbortNext]_vars

\* the three panics of Buffer.Release and put
ReleaseAborts ==
    {"Buffer already released or was never acquired",
     "Attempting to return a buffer that is still in use",
     "Attempting to return a buffer to a full pool"}

\* C22: a step of Buffer.Release or put that ends in one of the three
\* panics leaves every channel's queue, the pool's channel and the released
\* flag as they were, so Available() is unchanged; the steps of the call
\* before it (the compare-and-swap, put's released check) do not touch the
\* free list either, so the list is as it was before the call
C22_AbortKeepsList ==
    [][/\ panic' \in ReleaseAborts /\ panic = "none" =>
            /\ chans' = chans /\ buffers' = buffers /\ isReleased' = isReleased
            /\ Available' = Available
       /\ \A t \in Threads :
            \/ pc[t] = "idle" /\ pc'[t] = "put_check"
            \/ pc[t] \in {"put_check", "aput_check"}
            => chans' = chans /\ Available' = Available]_vars

\* a second Release of a buffer that went back on the free list has
\* panicked; the buffer is on the list once
C22_Witness ==
    /\ panic = "Buffer already released or was never acquired"
    /\ buffers # NilChan /\ Available > 0
    /\ \E t \in Consumers :
          /\ old[t] # NilBuf
          /\ Cardinality({i \in 1..Len(chans[buffers].q) :
                             chans[buffers].q[i] = old[t]}) = 1

\* C23: Pool.Release returns without a panic whatever the pool's lifecycle
\* state is, a pool whose channel was never made included (close of a nil
\* channel, or of a channel already closed, panics)
C23_ReleaseCompletes ==
    panic \notin {"close of nil channel", "close of closed channel"}

\* C24: with Pool.Release running at any point of it, Buffer.Release by
\* the holder of a buffer never panics: neither with one of its own three
\* panics nor with a send on the channel Pool.Release has closed
C24_ReleaseVsPoolRelease ==
    panic \notin ReleaseAborts \cup {"send on closed channel"}

\* C25: with Pool.Release running at any point of it, Acquire never panics
\* on the nil buffer a closed channel yields, and a thread that holds a
\* buffer outside a call holds a real one with inUse 1
C25_AcquireVsPoolRelease ==
    /\ panic # "nil pointer dereference"
    /\ \A t \in Threads :
          pc[t] = "idle" /\ held[t] # NilBuf => held[t] \in 1..nbuf /\ inUse[held[t]] = 1

\* the control points of Pool.Release after its compare-and-swap
PoolReleasePcs == {"prel_lock", "prel_drain", "prel_recv", "prel_close"}

\* C26: a Pool.Release call that has won the compare-and-swap always runs
\* to its end, whatever the stream goroutines and the consumers do
\* meanwhile: its drain loop finishes, the channel is closed and the mutex
\* is unlocked (a panic of the program ends the wait as well)
C26_ReleaseTerminates ==
    \A t \in Admins :
       (pc[t] \in PoolReleasePcs) ~>
          (panic # "none" \/ (pc[t] = "idle" /\ mu = Unlocked /\ ReleaseReturned))

\* one Init, then Reset calls by the admins while the consumers acquire
\* and release buffers and a stream goroutine runs
ResetNext ==
    \/ \E t \in Admins, count \in 1..MaxCount :
          nchan = 0 /\ InitBegin(t, count, MaxSize) /\ UNCHANGED hvars
    \/ \E t \in Admins : InitFill(t) /\ UNCHANGED hvars
    \/ \E t \in Admins : InitEnd(t) /\ UNCHANGED hvars
    \/ \E t \in Admins : isInitialized /\ ResetBegin(t) /\ UNCHANGED hvars
    \/ \E t \in Admins : ResetDrain(t) /\ UNCHANGED hvars
    \/ \E t \in Admins : ResetRecv(t) /\ UNCHANGED hvars
    \/ \E t \in Admins : ResetFill(t) /\ UNCHANGED hvars
    \/ \E t \in Admins : ResetEnd(t) /\ UNCHANGED hvars
    \/ \E t \in Consumers : isInitialized /\ AcquireCheck(t) /\ UNCHANGED hvars
    \/ \E t \in Consumers : AcquireSelect(t) /\ UNCHANGED hvars
    \/ \E t \in Consumers : BufferRelease(t) /\ UNCHANGED hvars
    \/ \E t \in Consumers : PutCheck(t) /\ UNCHANGED hvars
    \/ \E t \in Consumers : PutSend(t) /\ UNCHANGED hvars
    \/ \E t \in Admins, s \in Streams :
          isInitialized /\ BufferChan(t, s) /\ UNCHANGED hvars
    \/ \E s \in Streams : StreamStart(s) /\ UNCHANGED hvars
    \/ \E s \in Streams : StreamRecv(s) /\ UNCHANGED hvars
    \/ \E t \in Consumers, s \in Streams : StreamDeliver(t, s) /\ UNCHANGED hvars

\* a call that has begun takes its next step whenever it can, and so does
\* the stream goroutine; a receive or send Reset waits in is served as
\* soon as the channel allows it; a consumer hands back the buffer it
\* holds, and no consumer is obliged to call Acquire
ResetFair ==
    /\ \A t \in Admins :
          /\ WF_vars(InitFill(t) /\ UNCHANGED hvars)
          /\ WF_vars(InitEnd(t) /\ UNCHANGED hvars)
          /\ WF_vars(ResetDrain(t) /\ UNCHANGED hvars)
          /\ SF_vars(ResetRecv(t) /\ UNCHANGED hvars)
          /\ SF_vars(ResetFill(t) /\ UNCHANGED hvars)
          /\ WF_vars(ResetEnd(t) /\ UNCHANGED hvars)
    /\ \A t \in Consumers :
          /\ WF_vars(AcquireSelect(t) /\ UNCHANGED hvars)
          /\ WF_vars(BufferRelease(t) /\ UNCHANGED hvars)
          /\ WF_vars(PutCheck(t) /\ UNCHANGED hvars)
          /\ WF_vars(PutSend(t) /\ UNCHANGED hvars)
    /\ \A s \in Streams :
          /\ WF_vars(StreamStart(s) /\ UNCHANGED hvars)
          /\ WF_vars(StreamRecv(s) /\ UNCHANGED hvars)

SpecReset == Init /\ [][ResetNext]_vars /\ ResetFair

\* the control points of Reset while it holds the mutex
ResetPcs == {"reset_drain", "reset_recv", "reset_fill"}

\* C27: a Reset call that has locked the mutex always runs to its end,
\* whatever the consumers and the stream goroutine do meanwhile: neither
\* the receive of its drain loop nor a send of its refill loop blocks for
\* ever, and the mutex is unlocked (a panic of the program ends the wait
\* as well)
C27_ResetTerminates ==
    \A t \in Admins :
       (pc[t] \in ResetPcs) ~> (panic # "none" \/ (pc[t] = "idle" /\ mu = Unlocked))

\* C28: on a pool initialized once, Buffer.Release of a buffer made by the
\* last Reset, by the thread that acquired it, never panics in put, also
\* when buffers held since before that Reset have been released meanwhile
C28_NewGenRelease ==
    [][\A t \in Threads :
         /\ nchan = 1 /\ gen >= 0
         /\ held[t] # NilBuf /\ held[t] > gen
         /\ pc[t] \in {"put_check", "put_send"}
         => panic' = "none"]_vars

\* C29: the stream view takes nothing off the free list before a consumer
\* receives: on an initialized pool with no call in progress Available()
\* is the buffer count less the buffers that consumers hold, whether or
\* not BufferChan has been called
C29_StreamLazy ==
    AllIdle /\ isInitialized /\ isReleased = 0 =>
       Available = bufCount - Cardinality({t \in Threads : held[t] # NilBuf})

====
